---- MODULE Spec2Model ----
(***************************************************************************)
(* Download orchestration of audiobook-manager: the DownloadManager of     *)
(* app/services/download_manager.py with the job store (app/models.py),    *)
(* the qBittorrent adapter and the Audiobookshelf client as it uses them.  *)
(*                                                                         *)
(* The process is one asyncio event loop: a step of the model is the code  *)
(* a coroutine runs between two suspension points (await of a network call *)
(* or of a sleep).  Every coroutine works on ORM objects it loaded in its  *)
(* own session; a commit writes the columns whose value differs from the   *)
(* loaded one (UPDATE ... WHERE id = ?), and fails when the row is gone.   *)
(***************************************************************************)
EXTENDS Integers, Sequences, FiniteSets, TLC

\* ------------------------------------------------------------------ bounds
\* Number of rows the store ever inserts (start calls that reach db.add).
MaxStarts == 2
\* Ticks a monitoring task runs in the interleaving specification Spec.
MaxTicks == 2
\* Number of libraries the catalog lists.
MaxLibs == 1
\* Number of rows in the job table of the store specification SpecStore.
MaxJobs == 2
\* Longest listing the matcher is applied to in SpecMatch.
MaxListing == 2
\* Longest path, in characters, cleanup_download is applied to in SpecCleanupDownload.
MaxPathLen == 4
\* Longest file name, in tokens, the filename heuristic is applied to in SpecFilename.
MaxTokens == 4
\* Longest tail, in characters, of the names _make_filesystem_safe is applied to in SpecSafe.
MaxTail == 2
\* Number of adapter operations running concurrently in SpecAdapter.
MaxRequests == 2

\* ------------------------------------------------------- program constants
MaxAttempts == 1200
GraceAttempts == 120
\* 99.9 percent, in thousandths of a percent
CompleteThreshold == 99900
MatchWindow == 300
\* safe_name[:100]
NameLimit == 100

\* The job ids of the interleaving specification: one id, which SQLite hands
\* out again once its row has been deleted.
JobIds == {1}

\* ------------------------------------------------------------ search results
\* The search_results table: the orchestrator only reads it.  Result 1 has a
\* magnet link, result 2 has neither a magnet nor a download url; id 3 is not
\* in the table.
ResultIds == {1, 2}
RequestedResultIds == {1, 2, 3}
SearchResultTable ==
  [r \in ResultIds |->
     IF r = 1 THEN [title |-> <<"D", "u">>, has_url |-> TRUE]
              ELSE [title |-> <<"E", "m">>, has_url |-> FALSE]]

\* ------------------------------------------------------------------ the store
NoJob == [absent |-> TRUE]
NoHash == "None"
NoMsg == "None"
NoPath == <<>>

\* DownloadJob(search_result_id=..., status="starting") after db.add/commit:
\* the column defaults of the model class fill the rest.
NewJob(r, now) ==
  [search_result_id |-> r,
   torrent_hash |-> NoHash,
   status |-> "starting",
   progress |-> 0,
   download_path |-> NoPath,
   created_at |-> now,
   completed_at |-> "None",
   error_message |-> NoMsg]

VARIABLES
  jobs,              \* download_jobs table: job id -> row, or NoJob
  clock,             \* number of rows ever inserted (orders created_at)
  monitoring_tasks,  \* DownloadManager.monitoring_tasks: the registered ids
  live,              \* per job id, monitoring coroutines not yet finished
  mon,               \* per job id, the monitoring coroutine's local state
  startH,            \* per job id, the start_download call in flight
  opH,               \* per job id, the cancel/delete call in flight
  library,           \* names organized into the library
  removed,           \* download paths the last step deleted from disk
  call,              \* the function applied in a function specification: arguments, result
  qb,                \* the QBittorrentClient singleton: session, _login_time
  reqs,              \* the adapter operations in flight, each with its _make_request call
  result             \* what the public operation finishing in the last step returned

vars == <<jobs, clock, monitoring_tasks, live, mon, startH, opH, library, removed, call, qb, reqs, result>>

Exists(j) == jobs[j] # NoJob

\* SQLite's INTEGER PRIMARY KEY: one more than the largest id in the table.
Ids == DOMAIN jobs
NextId ==
  IF \A j \in Ids : ~Exists(j) THEN 1
  ELSE 1 + CHOOSE j \in Ids : Exists(j) /\ \A k \in Ids : Exists(k) => k <= j

\* A flush writes the attributes whose value differs from the loaded one and
\* leaves the other columns of the row as they are in the table.
Flush(cur, loaded, obj) ==
  [f \in DOMAIN cur |-> IF obj[f] # loaded[f] THEN obj[f] ELSE cur[f]]

\* db.commit() of an object loaded as `loaded` and now holding `obj`.
\* Without a change nothing is sent; an UPDATE of a missing row raises.
CommitRaises(j, loaded, obj) == obj # loaded /\ ~Exists(j)
CommitJobs(j, loaded, obj) ==
  IF Exists(j) THEN [jobs EXCEPT ![j] = Flush(jobs[j], loaded, obj)] ELSE jobs

\* scans: scan_library calls still to make; scanned: one of them returned True
IdleMon ==
  [pc |-> "none", attempts |-> 0, title |-> <<>>, loaded |-> NoJob, scans |-> 0,
   scanned |-> FALSE]
IdleStart == [pc |-> "idle", r |-> 0, loaded |-> NoJob]
\* msg: the error message of the job object a cancel call loaded
IdleOp == [pc |-> "idle", msg |-> NoMsg]
NoResult == [op |-> "none", job |-> 0, val |-> "None"]
NoCall == [fn |-> "none"]

\* QBittorrentClient.__init__: no session, _login_time = 0.  Sessions are
\* numbered in the order login creates them; made is the number created.
NewClient == [session |-> 0, made |-> 0, login_time |-> 0]
\* An adapter operation that has not been called.  sess: the session its
\* HTTP request in flight was issued on; relogins, sends: the login calls
\* its 403 branch made and the requests it sent; ret: what it returned.
IdleReq == [pc |-> "idle", op |-> "none", sess |-> 0, relogins |-> 0, sends |-> 0, ret |-> "none"]
IdleReqs == [r \in 1..MaxRequests |-> IdleReq]

Init ==
  /\ jobs = [j \in JobIds |-> NoJob]
  /\ clock = 0
  /\ monitoring_tasks = {}
  /\ live = [j \in JobIds |-> 0]
  /\ mon = [j \in JobIds |-> IdleMon]
  /\ startH = [j \in JobIds |-> IdleStart]
  /\ opH = [j \in JobIds |-> IdleOp]
  /\ library = {}
  /\ removed = {}
  /\ call = NoCall
  /\ qb = NewClient
  /\ reqs = IdleReqs
  /\ result = NoResult

\* ------------------------------------------------------------ start_download
\* Mutant of StartNotFound: the missing search result is not noticed and
\* the job is inserted.
StartNotFoundInserts(r) ==
  /\ r \notin ResultIds
  /\ NextId \in Ids
  /\ jobs' = [jobs EXCEPT ![NextId] = NewJob(r, clock + 1)]
  /\ result' = [op |-> "start", job |-> 0, val |-> "None"]
  /\ removed' = {} /\ UNCHANGED <<call, qb, reqs, clock, monitoring_tasks, live, mon, startH, opH, library>>

\* start_download up to its first await (ensure_audiobooks_category).
StartNotFound(r) ==
  /\ r \notin ResultIds
  /\ result' = [op |-> "start", job |-> 0, val |-> "None"]
  /\ removed' = {} /\ UNCHANGED <<call, qb, reqs, jobs, clock, monitoring_tasks, live, mon, startH, opH, library>>

StartBegin(r, limit) ==
  /\ r \in ResultIds
  /\ clock < limit
  /\ NextId \in Ids
  /\ startH[NextId].pc = "idle"
  /\ jobs' = [jobs EXCEPT ![NextId] = NewJob(r, clock + 1)]
  /\ clock' = clock + 1
  /\ startH' = [startH EXCEPT ![NextId] = [pc |-> "await_category", r |-> r, loaded |-> NoJob]]
  /\ result' = NoResult /\ removed' = {} /\ UNCHANGED <<call, qb, reqs, monitoring_tasks, live, mon, opH, library>>

MsgNoUrl == "No download URL available"
MsgAddFailed == "Failed to add torrent to qBittorrent"

\* Mutant of ShouldSpawn: the registry is not consulted.
ShouldSpawnAlways(j, registry) == TRUE

\* _start_monitoring: a task is created only for an id not yet registered.
ShouldSpawn(j, registry) == j \notin registry

StartMonitoringRegistry(j) ==
  IF ShouldSpawn(j, monitoring_tasks) THEN monitoring_tasks \cup {j} ELSE monitoring_tasks
StartMonitoringLive(j) ==
  IF ShouldSpawn(j, monitoring_tasks) THEN [live EXCEPT ![j] = @ + 1] ELSE live
StartMonitoringMon(j) ==
  IF ShouldSpawn(j, monitoring_tasks) THEN [mon EXCEPT ![j] = [IdleMon EXCEPT !.pc = "init"]] ELSE mon

\* start_download resumed after ensure_audiobooks_category (which never
\* raises): the url check, then the refresh of the job for download_job.id.
StartAfterCategory(j) ==
  /\ startH[j].pc = "await_category"
  /\ IF ~SearchResultTable[startH[j].r].has_url
     THEN \* status and message are set on the expired object and committed
          /\ jobs' = IF Exists(j)
                     THEN [jobs EXCEPT ![j].status = "failed", ![j].error_message = MsgNoUrl]
                     ELSE jobs
          /\ startH' = [startH EXCEPT ![j] = IdleStart]
          /\ result' = [op |-> "start", job |-> j, val |-> IF Exists(j) THEN "job" ELSE "raised"]
     ELSE IF ~Exists(j)
     THEN \* the refresh raises; the handler's own commit then raises too
          /\ startH' = [startH EXCEPT ![j] = IdleStart]
          /\ result' = [op |-> "start", job |-> j, val |-> "raised"]
          /\ jobs' = jobs
     ELSE /\ startH' = [startH EXCEPT ![j].pc = "await_add", ![j].loaded = jobs[j]]
          /\ result' = NoResult /\ UNCHANGED jobs
  /\ removed' = {} /\ UNCHANGED <<call, qb, reqs, clock, monitoring_tasks, live, mon, opH, library>>

\* start_download resumed after add_torrent returned `success`.
StartAfterAdd(j, success) ==
  /\ startH[j].pc = "await_add"
  /\ startH' = [startH EXCEPT ![j] = IdleStart]
  /\ LET loaded == startH[j].loaded
         obj == IF success
                THEN [loaded EXCEPT !.status = "downloading"]
                ELSE [loaded EXCEPT !.status = "failed", !.error_message = MsgAddFailed]
     IN IF ~Exists(j)
        THEN /\ result' = [op |-> "start", job |-> j, val |-> "raised"]
             /\ UNCHANGED <<jobs, monitoring_tasks, live, mon>>
        ELSE /\ jobs' = CommitJobs(j, loaded, obj)
             /\ result' = [op |-> "start", job |-> j, val |-> "job"]
             /\ IF success
                THEN /\ monitoring_tasks' = StartMonitoringRegistry(j)
                     /\ live' = StartMonitoringLive(j)
                     /\ mon' = StartMonitoringMon(j)
                ELSE UNCHANGED <<monitoring_tasks, live, mon>>
  /\ removed' = {} /\ UNCHANGED <<call, qb, reqs, clock, opH, library>>

\* ---------------------------------------------------------- identity matching
\* target_tag = f"audiobook-manager-{job_id}" and the test
\* `target_tag in torrent.get('tags', '')` on the comma-joined tag string:
\* the tag of job j occurs in the string when some attached job tag has the
\* decimal digits of j as a prefix of its own number.
RECURSIVE IsDigitPrefix(_, _)
IsDigitPrefix(j, k) ==
  IF j = k THEN TRUE
  ELSE IF k < 10 THEN FALSE
  ELSE IsDigitPrefix(j, k \div 10)

TagInString(j, tags) == \E k \in tags : IsDigitPrefix(j, k)

\* str.lower() on the characters the names are made of
LowerChar(c) ==
  CASE c = "D" -> "d" [] c = "U" -> "u" [] c = "E" -> "e" [] c = "M" -> "m"
    [] c = "B" -> "b" [] c = "Y" -> "y"
    [] OTHER -> c
Lower(s) == [i \in 1..Len(s) |-> LowerChar(s[i])]

\* `a in b` on strings
IsSubstring(a, b) ==
  \E i \in 0..(Len(b) - Len(a)) : SubSeq(b, i + 1, i + Len(a)) = a

Abs(x) == IF x < 0 THEN -x ELSE x

TagMatches(j, t) == TagInString(j, t.tags)
NameMatches(title, created, t) ==
  /\ IsSubstring(Lower(title), Lower(t.name))
  /\ Abs(t.added_on - created) < MatchWindow

\* Index of the first element of `torrents` satisfying P, 0 when none does.
FirstTag(j, torrents) ==
  IF \E i \in 1..Len(torrents) : TagMatches(j, torrents[i])
  THEN CHOOSE i \in 1..Len(torrents) :
         /\ TagMatches(j, torrents[i])
         /\ \A k \in 1..(i - 1) : ~TagMatches(j, torrents[k])
  ELSE 0
FirstName(title, created, torrents) ==
  IF \E i \in 1..Len(torrents) : NameMatches(title, created, torrents[i])
  THEN CHOOSE i \in 1..Len(torrents) :
         /\ NameMatches(title, created, torrents[i])
         /\ \A k \in 1..(i - 1) : ~NameMatches(title, created, torrents[k])
  ELSE 0

\* The two strategies of _monitor_download: tag first, then name and time.
\* The index of matching_torrent in the listing, 0 for no match.
Match(j, title, created, torrents) ==
  IF FirstTag(j, torrents) # 0 THEN FirstTag(j, torrents)
  ELSE FirstName(title, created, torrents)

\* ----------------------------------------------------- the transfer daemon
\* What the daemon may list: the transfer submitted for job 1 (it carries the
\* job's tag) and a transfer somebody else added shortly after whose name
\* contains the title of result 1; each below and at completion, downloading
\* or in an error state.
ErrorStates == {"error", "missingFiles", "pausedUP", "unknown"}
\* The save path of the audiobooks category in the daemon, where it differs
\* from storage.download_path (ensure_audiobooks_category only warns).
CategorySavePath == "category"
\* content_path: where the daemon reports the content; the first transfer
\* reports it, below the save path of its category, the second does not.
Identities ==
  { [hash |-> "h1", tags |-> {1}, name |-> <<"D", "U", "n", "e">>, added_on |-> 5,
     content_path |-> <<CategorySavePath, <<"D", "U", "n", "e">>>>],
    [hash |-> "h2", tags |-> {}, name |-> <<"d", "u", "x">>, added_on |-> 5,
     content_path |-> <<>>] }
\* progress (0..1, in thousandths) and state of a listed transfer
Readings ==
  { [progress |-> 200, state |-> "downloading"],
    [progress |-> 500, state |-> "downloading"],
    [progress |-> 1000, state |-> "downloading"],
    [progress |-> 200, state |-> "error"] }
Snapshots ==
  { [hash |-> t.hash, tags |-> t.tags, name |-> t.name, added_on |-> t.added_on,
     content_path |-> t.content_path,
     progress |-> r.progress, state |-> r.state] : t \in Identities, r \in Readings }

\* The listings a tick of the interleaving specification receives.  A tick
\* uses only the element Match selects, and Match selects the single element
\* of <<t>> whenever it selects t from a longer listing, so the one-element
\* listings produce every outcome a tick can have.
Listings == {<<>>} \cup { <<t>> : t \in Snapshots }

\* ------------------------------------------------------------ _monitor_download
MsgNotFound == "Torrent not found in qBittorrent after timeout"
MsgOrganize == "Failed to organize downloaded files"
MsgNoScan == "Download completed but could not trigger Audiobookshelf scan"
MsgCancelled == "Cancelled by user"
StateMsg(st) ==
  CASE st = "error" -> "Torrent state: error"
    [] st = "missingFiles" -> "Torrent state: missingFiles"
    [] st = "pausedUP" -> "Torrent state: pausedUP"
    [] OTHER -> "Torrent state: unknown"

DownloadRoot == "downloads"
\* os.path.join(config.get('storage.download_path'), torrent_name)
JoinPath(base, name) == <<base, name>>

\* matching_torrent.get('progress', 0) * 100, in thousandths of a percent
ProgressPercent(fraction) == fraction * 100

\* Mutant of MonitorStops: a cancelled job does not stop the loop.
MonitorStopsWithoutCancelled(status) == status \in {"completed", "failed"}

\* The statuses on which the loop stops at the top of a tick.
MonitorStops(status) == status \in {"cancelled", "completed", "failed"}

\* The code after the while loop: the task removes its id from the registry.
Finished(j) ==
  /\ monitoring_tasks' = monitoring_tasks \ {j}
  /\ live' = [live EXCEPT ![j] = @ - 1]

\* The task's first step: it reads the job and its search result.  When the
\* job is missing it returns from inside the try block, past the cleanup.
MonitorInit(j) ==
  /\ mon[j].pc = "init"
  /\ IF Exists(j)
     THEN /\ mon' = [mon EXCEPT ![j].pc = "loop",
                                ![j].title = SearchResultTable[jobs[j].search_result_id].title]
          /\ UNCHANGED live
     ELSE /\ mon' = [mon EXCEPT ![j].pc = "done"]
          /\ live' = [live EXCEPT ![j] = @ - 1]
  /\ result' = NoResult /\ removed' = {} /\ UNCHANGED <<call, qb, reqs, jobs, clock, monitoring_tasks, startH, opH, library>>

\* Top of a tick, entered after the 5 second sleep: attempts += 1, the job is
\* read in a fresh session, and the listing is awaited unless the loop breaks.
TickTop(j, cap) ==
  /\ mon[j].pc = "loop"
  /\ mon[j].attempts < MaxAttempts
  /\ mon[j].attempts < cap
  /\ IF Exists(j) /\ ~MonitorStops(jobs[j].status)
     THEN /\ mon' = [mon EXCEPT ![j].pc = "await_list", ![j].attempts = @ + 1,
                                ![j].loaded = jobs[j]]
          /\ UNCHANGED <<monitoring_tasks, live>>
     ELSE /\ mon' = [mon EXCEPT ![j].pc = "done", ![j].attempts = @ + 1, ![j].loaded = NoJob]
          /\ Finished(j)
  /\ result' = NoResult /\ removed' = {} /\ UNCHANGED <<call, qb, reqs, jobs, clock, startH, opH, library>>

\* `while attempts < max_attempts` is false: the loop ends.
LoopExhausted(j) ==
  /\ mon[j].pc = "loop"
  /\ mon[j].attempts >= MaxAttempts
  /\ mon' = [mon EXCEPT ![j].pc = "done", ![j].loaded = NoJob]
  /\ Finished(j)
  /\ result' = NoResult /\ removed' = {} /\ UNCHANGED <<call, qb, reqs, jobs, clock, startH, opH, library>>

\* Mutant of BindHash: every matching tick assigns the hash.
BindHashAlways(loadedHash, h) == h

\* `if not download_job.torrent_hash: download_job.torrent_hash = torrent_hash`
BindHash(loadedHash, h) == IF loadedHash = NoHash THEN h ELSE loadedHash

\* Mutant of GraceOver: the comparison includes the bound.
GraceOverAtBound(attempts) == attempts >= GraceAttempts

\* `if attempts > 120` in the branch without a match
GraceOver(attempts) == attempts > GraceAttempts

\* What the tick makes of the job object it loaded, given the listing.
\* kind: what the tick does after its commit.
TickOutcome(j, m, torrents) ==
  LET loaded == m.loaded
      i == Match(j, m.title, loaded.created_at, torrents)
  IN IF i # 0
     THEN LET t == torrents[i]
              bound == [loaded EXCEPT !.torrent_hash = BindHash(loaded.torrent_hash, t.hash),
                                      !.progress = ProgressPercent(t.progress)]
          IN IF ProgressPercent(t.progress) >= CompleteThreshold
             THEN [obj |-> [bound EXCEPT !.download_path = JoinPath(DownloadRoot, t.name),
                                         !.status = "processing"],
                   commit |-> TRUE, kind |-> "process"]
             ELSE IF t.state \in ErrorStates
             THEN [obj |-> [bound EXCEPT !.status = "failed",
                                         !.error_message = StateMsg(t.state)],
                   commit |-> TRUE, kind |-> "break"]
             ELSE [obj |-> [bound EXCEPT !.status = "downloading"],
                   commit |-> TRUE, kind |-> "continue"]
     ELSE IF GraceOver(m.attempts)
     THEN [obj |-> [loaded EXCEPT !.status = "failed", !.error_message = MsgNotFound],
           commit |-> TRUE, kind |-> "break"]
     ELSE [obj |-> loaded, commit |-> FALSE, kind |-> "continue"]

\* Mutant of TickAfterList: a commit that raises ends the loop.
TickAfterListBreaksOnError(j, ok, listed) ==
  /\ mon[j].pc = "await_list"
  /\ LET torrents == IF ok THEN listed ELSE <<>>
         out == TickOutcome(j, mon[j], torrents)
         raises == out.commit /\ CommitRaises(j, mon[j].loaded, out.obj)
     IN /\ jobs' = IF out.commit THEN CommitJobs(j, mon[j].loaded, out.obj) ELSE jobs
        /\ IF ~raises /\ out.kind = "continue"
           THEN /\ mon' = [mon EXCEPT ![j].pc = "loop", ![j].loaded = NoJob]
                /\ UNCHANGED <<monitoring_tasks, live>>
           ELSE IF ~raises /\ out.kind = "process"
           THEN /\ mon' = [mon EXCEPT ![j].pc = "sleep2", ![j].loaded = NoJob]
                /\ UNCHANGED <<monitoring_tasks, live>>
           ELSE /\ mon' = [mon EXCEPT ![j].pc = "done", ![j].loaded = NoJob]
                /\ Finished(j)
  /\ result' = NoResult /\ removed' = {} /\ UNCHANGED <<call, qb, reqs, clock, startH, opH, library>>

\* The tick resumed with the listing get_torrents returned; a failed call
\* is reported by the adapter as an empty list.
TickAfterList(j, ok, listed) ==
  /\ mon[j].pc = "await_list"
  /\ LET torrents == IF ok THEN listed ELSE <<>>
         out == TickOutcome(j, mon[j], torrents)
         raises == out.commit /\ CommitRaises(j, mon[j].loaded, out.obj)
     IN /\ jobs' = IF out.commit THEN CommitJobs(j, mon[j].loaded, out.obj) ELSE jobs
        /\ IF raises \/ out.kind = "continue"
           THEN \* except/finally, then sleep(5)
                /\ mon' = [mon EXCEPT ![j].pc = "loop", ![j].loaded = NoJob]
                /\ UNCHANGED <<monitoring_tasks, live>>
           ELSE IF out.kind = "process"
           THEN \* sleep(2) before the completion pipeline
                /\ mon' = [mon EXCEPT ![j].pc = "sleep2", ![j].loaded = NoJob]
                /\ UNCHANGED <<monitoring_tasks, live>>
           ELSE /\ mon' = [mon EXCEPT ![j].pc = "done", ![j].loaded = NoJob]
                /\ Finished(j)
  /\ result' = NoResult /\ removed' = {} /\ UNCHANGED <<call, qb, reqs, clock, startH, opH, library>>

\* The store sessions of the monitoring task, by the place at which the task
\* is suspended.  db is created at the top of a tick and closed in the
\* finally clause of the tick: it is open while the tick awaits the listing,
\* the 2 second sleep and the whole pipeline, and closed during the 5 second
\* sleep.  process_db is created after the 2 second sleep and closed when
\* the pipeline has returned: it is open during the catalog calls.
TickSessionOpen(m) == m.pc \in {"await_list", "sleep2", "await_libs", "await_scan"}
ProcessSessionOpen(m) == m.pc \in {"await_libs", "await_scan"}

\* --------------------------------------------------- _process_completed_download
\* Mutant of ProcessAfterSleep: the result of the organizer is not tested
\* and the pipeline goes on to the catalog.
ProcessAfterSleepUnchecked(j, organized) ==
  /\ mon[j].pc = "sleep2"
  /\ organized => (Exists(j) /\ jobs[j].download_path # NoPath)
  /\ IF ~Exists(j)
     THEN /\ mon' = [mon EXCEPT ![j].pc = "loop"]
          /\ UNCHANGED <<jobs, monitoring_tasks, live, library>>
     ELSE /\ jobs' = [jobs EXCEPT ![j].status = "processing"]
          /\ library' = IF organized THEN library \cup {jobs[j].download_path[2]} ELSE library
          /\ mon' = [mon EXCEPT ![j].pc = "await_libs"]
          /\ UNCHANGED <<monitoring_tasks, live>>
  /\ result' = NoResult /\ removed' = {} /\ UNCHANGED <<call, qb, reqs, clock, startH, opH>>

\* After sleep(2): the job is read in a fresh session and the pipeline runs
\* up to its first network call.  organize_downloaded_audiobook has no await
\* of its own: it returns None for an empty path, and otherwise `organized`
\* tells whether the path exists, holds audio files and could be copied.  It
\* copies: nothing is removed from the download directory.
ProcessAfterSleep(j, organized) ==
  /\ mon[j].pc = "sleep2"
  /\ organized => (Exists(j) /\ jobs[j].download_path # NoPath)
  /\ IF ~Exists(j)
     THEN \* download_job is None: the AttributeError is caught by the tick
          /\ mon' = [mon EXCEPT ![j].pc = "loop"]
          /\ UNCHANGED <<jobs, monitoring_tasks, live, library>>
     ELSE IF organized
     THEN /\ jobs' = [jobs EXCEPT ![j].status = "processing"]
          /\ library' = library \cup {jobs[j].download_path[2]}
          /\ mon' = [mon EXCEPT ![j].pc = "await_libs"]
          /\ UNCHANGED <<monitoring_tasks, live>>
     ELSE /\ jobs' = [jobs EXCEPT ![j].status = "failed", ![j].error_message = MsgOrganize]
          /\ mon' = [mon EXCEPT ![j].pc = "done"]
          /\ Finished(j)
          /\ UNCHANGED library
  /\ result' = NoResult /\ removed' = {} /\ UNCHANGED <<call, qb, reqs, clock, startH, opH>>

\* The pipeline resumed with the `n` libraries get_libraries returned (none
\* when the call failed).
ProcessAfterLibraries(j, n) ==
  /\ mon[j].pc = "await_libs"
  /\ IF n > 0
     THEN /\ mon' = [mon EXCEPT ![j].pc = "await_scan", ![j].scans = n, ![j].scanned = FALSE]
          /\ UNCHANGED <<jobs, monitoring_tasks, live>>
     ELSE IF Exists(j)
     THEN /\ jobs' = [jobs EXCEPT ![j].status = "completed_with_warning",
                                  ![j].error_message = MsgNoScan]
          /\ mon' = [mon EXCEPT ![j].pc = "done"]
          /\ Finished(j)
     ELSE \* both commits raise; the tick's handler catches it
          /\ mon' = [mon EXCEPT ![j].pc = "loop"]
          /\ UNCHANGED <<jobs, monitoring_tasks, live>>
  /\ result' = NoResult /\ removed' = {} /\ UNCHANGED <<call, qb, reqs, clock, startH, opH, library>>

\* The pipeline resumed after one scan_library call, which returned `ok`.
\* The result is only logged: after the last call the job is completed.
ProcessAfterScan(j, ok) ==
  /\ mon[j].pc = "await_scan"
  /\ IF mon[j].scans > 1
     THEN /\ mon' = [mon EXCEPT ![j].scans = @ - 1, ![j].scanned = @ \/ ok]
          /\ UNCHANGED <<jobs, monitoring_tasks, live>>
     ELSE IF Exists(j)
     THEN /\ jobs' = [jobs EXCEPT ![j].status = "completed", ![j].completed_at = "set"]
          /\ mon' = [mon EXCEPT ![j].pc = "done", ![j].scans = 0, ![j].scanned = @ \/ ok]
          /\ Finished(j)
     ELSE /\ mon' = [mon EXCEPT ![j].pc = "loop", ![j].scans = 0, ![j].scanned = FALSE]
          /\ UNCHANGED <<jobs, monitoring_tasks, live>>
  /\ result' = NoResult /\ removed' = {} /\ UNCHANGED <<call, qb, reqs, clock, startH, opH, library>>

\* ------------------------------------------------------------ cancel_download
\* Mutant of CancelNoop: a cancelled job is cancelled again.
CancelNoopWithoutCancelled(status) == status \in {"completed", "failed"}

\* The statuses on which cancel returns True at once.
CancelNoop(status) == status \in {"completed", "failed", "cancelled"}

\* Mutant of Cancel: the adapter is called whether or not a hash is bound.
CancelAlwaysAwaits(j) ==
  /\ opH[j].pc = "idle"
  /\ IF ~Exists(j)
     THEN /\ result' = [op |-> "cancel", job |-> j, val |-> "False"]
          /\ UNCHANGED <<jobs, opH>>
     ELSE IF CancelNoop(jobs[j].status)
     THEN /\ result' = [op |-> "cancel", job |-> j, val |-> "True"]
          /\ UNCHANGED <<jobs, opH>>
     ELSE /\ opH' = [opH EXCEPT ![j] = [pc |-> "cancel_await", msg |-> jobs[j].error_message]]
          /\ result' = NoResult /\ UNCHANGED jobs
  /\ removed' = {} /\ UNCHANGED <<call, qb, reqs, clock, monitoring_tasks, live, mon, startH, library>>

\* cancel_download up to its return or to the await of delete_torrent.
Cancel(j) ==
  /\ opH[j].pc = "idle"
  /\ IF ~Exists(j)
     THEN /\ result' = [op |-> "cancel", job |-> j, val |-> "False"]
          /\ UNCHANGED <<jobs, opH>>
     ELSE IF CancelNoop(jobs[j].status)
     THEN /\ result' = [op |-> "cancel", job |-> j, val |-> "True"]
          /\ UNCHANGED <<jobs, opH>>
     ELSE IF jobs[j].torrent_hash # NoHash
     THEN /\ opH' = [opH EXCEPT ![j] = [pc |-> "cancel_await", msg |-> jobs[j].error_message]]
          /\ result' = NoResult /\ UNCHANGED jobs
     ELSE /\ jobs' = [jobs EXCEPT ![j].status = "cancelled", ![j].error_message = MsgCancelled]
          /\ result' = [op |-> "cancel", job |-> j, val |-> "True"]
          /\ UNCHANGED opH
  /\ removed' = {} /\ UNCHANGED <<call, qb, reqs, clock, monitoring_tasks, live, mon, startH, library>>

\* `job.error_message = "Cancelled by user"` on the object loaded with the
\* message `loadedMsg`: the flush sends the column only when the value
\* differs from the loaded one, else the row keeps the message it has.
CancelMessage(loadedMsg, rowMsg) ==
  IF loadedMsg = MsgCancelled THEN rowMsg ELSE MsgCancelled

\* Mutant of CancelAfterDelete: the result of delete_torrent is not tested.
CancelAfterDeleteUnchecked(j, success) ==
  /\ opH[j].pc = "cancel_await"
  /\ opH' = [opH EXCEPT ![j] = IdleOp]
  /\ IF Exists(j)
     THEN /\ jobs' = [jobs EXCEPT ![j].status = "cancelled",
                                  ![j].error_message = CancelMessage(opH[j].msg, @)]
          /\ result' = [op |-> "cancel", job |-> j, val |-> "True"]
     ELSE /\ result' = [op |-> "cancel", job |-> j, val |-> "False"]
          /\ UNCHANGED jobs
  /\ removed' = {} /\ UNCHANGED <<call, qb, reqs, clock, monitoring_tasks, live, mon, startH, library>>

\* cancel_download resumed after delete_torrent returned `success`.  The
\* job object was loaded before the await and is not expired: the status
\* always differs from the loaded one and is written.
CancelAfterDelete(j, success) ==
  /\ opH[j].pc = "cancel_await"
  /\ opH' = [opH EXCEPT ![j] = IdleOp]
  /\ IF success /\ Exists(j)
     THEN /\ jobs' = [jobs EXCEPT ![j].status = "cancelled",
                                  ![j].error_message = CancelMessage(opH[j].msg, @)]
          /\ result' = [op |-> "cancel", job |-> j, val |-> "True"]
     ELSE /\ result' = [op |-> "cancel", job |-> j, val |-> "False"]
          /\ UNCHANGED jobs
  /\ removed' = {} /\ UNCHANGED <<call, qb, reqs, clock, monitoring_tasks, live, mon, startH, library>>

\* ------------------------------------------------------- delete_download_job
\* What the file system makes of os.path.exists(path) and of the removal
\* that follows: the path is not there, it is there and gets removed, or it
\* is there and os.remove / shutil.rmtree raises (logged, nothing more).
\* Where the code does not ask the file system, the answer is "absent".
FsOutcomes == {"absent", "removed", "stuck"}

\* Mutant of AsksFileSystem: the delete_files argument is not consulted.
AsksFileSystemAlways(delete_files, path) == path # NoPath

\* `delete_files and job.download_path`: os.path.exists is called only then.
AsksFileSystem(delete_files, path) == delete_files /\ path # NoPath

\* `if delete_files and job.download_path and os.path.exists(job.download_path)`
DeletesFiles(delete_files, path, fs) == AsksFileSystem(delete_files, path) /\ fs # "absent"

\* delete_download_job up to its return or to the await of delete_torrent.
Delete(j, delete_files, fs) ==
  /\ opH[j].pc = "idle"
  /\ fs # "absent" => (Exists(j) /\ AsksFileSystem(delete_files, jobs[j].download_path))
  /\ IF ~Exists(j)
     THEN /\ result' = [op |-> "delete", job |-> j, val |-> "False"]
          /\ removed' = {}
          /\ UNCHANGED <<jobs, opH>>
     ELSE /\ removed' = IF DeletesFiles(delete_files, jobs[j].download_path, fs) /\ fs = "removed"
                        THEN {jobs[j].download_path}
                        ELSE {}
          /\ IF jobs[j].torrent_hash # NoHash
             THEN /\ opH' = [opH EXCEPT ![j].pc = "delete_await"]
                  /\ result' = NoResult /\ UNCHANGED jobs
             ELSE /\ jobs' = [jobs EXCEPT ![j] = NoJob]
                  /\ result' = [op |-> "delete", job |-> j, val |-> "True"]
                  /\ UNCHANGED opH
  /\ UNCHANGED <<call, qb, reqs, clock, monitoring_tasks, live, mon, startH, library>>

\* delete_download_job resumed after delete_torrent (its result is ignored).
DeleteAfterTorrent(j) ==
  /\ opH[j].pc = "delete_await"
  /\ opH' = [opH EXCEPT ![j].pc = "idle"]
  /\ jobs' = [jobs EXCEPT ![j] = NoJob]
  /\ result' = [op |-> "delete", job |-> j, val |-> "True"]
  /\ removed' = {} /\ UNCHANGED <<call, qb, reqs, clock, monitoring_tasks, live, mon, startH, library>>

\* -------------------------------------------------- cleanup_completed_downloads
\* Mutant of CleanupStatuses: every terminal status is collected.
CleanupStatusesAllTerminal == {"completed", "completed_with_warning", "cancelled", "failed"}

CleanupStatuses == {"completed", "cancelled", "failed"}
JobsToDelete(cutoff) ==
  {j \in Ids : Exists(j) /\ jobs[j].status \in CleanupStatuses
                            /\ jobs[j].created_at < cutoff}

\* `if job.download_path and os.path.exists(job.download_path)`: the
\* collected jobs for which the file system is asked.
AsksForPath(cutoff) == {j \in JobsToDelete(cutoff) : jobs[j].download_path # NoPath}

\* cleanup_completed_downloads has no await: the loop over the collected
\* jobs and the commit are one step.  `gone` are the jobs whose path exists
\* and is removed; for the others the path is missing or the removal raises,
\* which is logged.  No adapter call is made.
Cleanup(cutoff, gone) ==
  /\ gone \subseteq AsksForPath(cutoff)
  /\ jobs' = [j \in Ids |-> IF j \in JobsToDelete(cutoff) THEN NoJob ELSE jobs[j]]
  /\ removed' = { jobs[j].download_path : j \in gone }
  /\ result' = [op |-> "cleanup", job |-> 0, val |-> Cardinality(JobsToDelete(cutoff))]
  /\ UNCHANGED <<call, qb, reqs, clock, monitoring_tasks, live, mon, startH, opH, library>>

\* ------------------------------------------------------------ specifications
\* Every interleaving of the operations that act on a job, each monitoring
\* task running at most MaxTicks ticks.  (A start call for a search result
\* that does not exist touches no job: it is part of SpecStore.)
Next ==
  \/ \E r \in ResultIds : StartBegin(r, MaxStarts)
  \/ \E j \in JobIds : StartAfterCategory(j)
  \/ \E j \in JobIds, success \in BOOLEAN : StartAfterAdd(j, success)
  \/ \E j \in JobIds : MonitorInit(j)
  \/ \E j \in JobIds : TickTop(j, MaxTicks)
  \/ \E j \in JobIds, listed \in Listings : TickAfterList(j, TRUE, listed)
  \/ \E j \in JobIds : TickAfterList(j, FALSE, <<>>)
  \/ \E j \in JobIds, organized \in BOOLEAN : ProcessAfterSleep(j, organized)
  \/ \E j \in JobIds, n \in 0..MaxLibs : ProcessAfterLibraries(j, n)
  \/ \E j \in JobIds, ok \in BOOLEAN : ProcessAfterScan(j, ok)
  \/ \E j \in JobIds : Cancel(j)
  \/ \E j \in JobIds, success \in BOOLEAN : CancelAfterDelete(j, success)
  \/ \E j \in JobIds, delete_files \in BOOLEAN, fs \in FsOutcomes : Delete(j, delete_files, fs)
  \/ \E j \in JobIds : DeleteAfterTorrent(j)
  \/ \E cutoff \in 1..(clock + 1), gone \in SUBSET JobIds : Cleanup(cutoff, gone)

Spec == Init /\ [][Next]_vars

\* One job from its start to the end of its monitoring task, every tick of
\* the attempt budget included: a single start of result 1, no delete and no
\* cleanup, the operator may cancel.
NextLong ==
  \/ StartBegin(1, 1)
  \/ StartAfterCategory(1)
  \/ \E success \in BOOLEAN : StartAfterAdd(1, success)
  \/ MonitorInit(1)
  \/ TickTop(1, MaxAttempts)
  \/ LoopExhausted(1)
  \/ \E listed \in Listings : TickAfterList(1, TRUE, listed)
  \/ TickAfterList(1, FALSE, <<>>)
  \/ \E organized \in BOOLEAN : ProcessAfterSleep(1, organized)
  \/ \E n \in 0..MaxLibs : ProcessAfterLibraries(1, n)
  \/ \E ok \in BOOLEAN : ProcessAfterScan(1, ok)
  \/ Cancel(1)
  \/ \E success \in BOOLEAN : CancelAfterDelete(1, success)

SpecLong == Init /\ [][NextLong]_vars

\* The operator's operations on a job table as a process finds it when it
\* starts: the rows outlive the process, no task and no call is in flight.
\* A row is as the operations leave rows: the hash is bound from the first
\* matching tick on, the path is set when the transfer completed, and the
\* terminal statuses carry their message.  There is a row of age 1 in every
\* status and a younger completed one.
StoreIds == 1..MaxJobs
StorePath == JoinPath(DownloadRoot, <<"D", "U", "n", "e">>)
StoreShapes ==
  {<<"starting", NoHash, NoPath, 1>>,
   <<"downloading", "h1", NoPath, 1>>,
   <<"processing", "h1", StorePath, 1>>,
   <<"completed", "h1", StorePath, 1>>,
   <<"completed", "h1", StorePath, 2>>,
   <<"completed_with_warning", "h1", StorePath, 1>>,
   <<"failed", NoHash, NoPath, 1>>,
   <<"cancelled", "h1", StorePath, 1>>}
StoreMessage(status) ==
  CASE status = "failed" -> MsgAddFailed
    [] status = "cancelled" -> MsgCancelled
    [] status = "completed_with_warning" -> MsgNoScan
    [] OTHER -> NoMsg
StoreRows ==
  { [search_result_id |-> 1,
     torrent_hash |-> sh[2],
     status |-> sh[1],
     progress |-> IF sh[3] = NoPath THEN 0 ELSE ProgressPercent(1000),
     download_path |-> sh[3],
     created_at |-> sh[4],
     completed_at |-> IF sh[1] = "completed" THEN "set" ELSE "None",
     error_message |-> StoreMessage(sh[1])] : sh \in StoreShapes }

InitStore ==
  /\ jobs \in [StoreIds -> StoreRows \cup {NoJob}]
  /\ clock = 2
  /\ monitoring_tasks = {}
  /\ live = [j \in StoreIds |-> 0]
  /\ mon = [j \in StoreIds |-> IdleMon]
  /\ startH = [j \in StoreIds |-> IdleStart]
  /\ opH = [j \in StoreIds |-> IdleOp]
  /\ library = {}
  /\ removed = {}
  /\ call = NoCall
  /\ qb = NewClient
  /\ reqs = IdleReqs
  /\ result = NoResult

NextStore ==
  \/ \E r \in RequestedResultIds : StartNotFound(r)
  \/ \E cutoff \in 1..(clock + 1), gone \in SUBSET StoreIds : Cleanup(cutoff, gone)
  \/ \E j \in StoreIds, delete_files \in BOOLEAN, fs \in FsOutcomes : Delete(j, delete_files, fs)
  \/ \E j \in StoreIds : DeleteAfterTorrent(j)
  \/ \E j \in StoreIds : Cancel(j)
  \/ \E j \in StoreIds, success \in BOOLEAN : CancelAfterDelete(j, success)

SpecStore == InitStore /\ [][NextStore]_vars

\* ------------------------------------------------------ function specifications
\* The functions below are applied on their own: no job, no task and no
\* call of the orchestrator is there.
NoProgram ==
  /\ jobs = [j \in JobIds |-> NoJob]
  /\ clock = 0
  /\ monitoring_tasks = {}
  /\ live = [j \in JobIds |-> 0]
  /\ mon = [j \in JobIds |-> IdleMon]
  /\ startH = [j \in JobIds |-> IdleStart]
  /\ opH = [j \in JobIds |-> IdleOp]
  /\ library = {}
  /\ removed = {}
  /\ qb = NewClient
  /\ reqs = IdleReqs
  /\ result = NoResult

\* --------------------------------------------------------------- the matcher
\* The two matching strategies of a tick applied to a listing, for a job
\* with a one-digit id and one whose id begins with the same digit.  A
\* listed transfer carries the tag of job 1, of job 12 or no job tag; its
\* name contains the title or not; it was added 10 seconds after the job
\* was created, 299 seconds before, or 300 seconds after.
MatchJobIds == {1, 12}
MatchTitle == <<"D", "u">>
MatchCreated == 1000
Candidates ==
  { [tags |-> g, name |-> n, added_on |-> a] :
      g \in {{}, {1}, {12}},
      n \in {<<"D", "U", "n", "e">>, <<"x", "d">>},
      a \in {MatchCreated + 10, MatchCreated - 299, MatchCreated + 300} }
ListingsUpTo(n) == UNION { [1..k -> Candidates] : k \in 0..n }

InitMatch ==
  /\ NoProgram
  /\ call \in { [fn |-> "match", job |-> j, torrents |-> l, done |-> FALSE,
                 by_tag |-> 0, ret |-> 0] : j \in MatchJobIds, l \in ListingsUpTo(MaxListing) }

\* by_tag: matching_torrent after the first loop; ret: after the second.
MatchCall ==
  /\ call.fn = "match" /\ ~call.done
  /\ call' = [call EXCEPT !.done = TRUE,
                          !.by_tag = FirstTag(call.job, call.torrents),
                          !.ret = Match(call.job, MatchTitle, MatchCreated, call.torrents)]
  /\ UNCHANGED <<jobs, clock, monitoring_tasks, live, mon, startH, opH, library, removed, qb, reqs, result>>

NextMatch == MatchCall

SpecMatch == InitMatch /\ [][NextMatch]_vars

\* ------------------------------------------------------------- the organizer
\* organize_downloaded_audiobook on a download directory and a library
\* directory Library/Author/Title.  A directory is the function from the
\* relative paths of its files to their contents.  For a single-file
\* download the path is the file SingleFile and the directory is the one
\* that holds it.
SrcNames == {"a.mp3", "cover.jpg", "cd2/b.m4b"}
SingleFile == "a.mp3"
AudioNames == {"a.mp3", "cd2/b.m4b"}
Contents == {"old", "new"}
Dirs(names, contents) == UNION { [d -> contents] : d \in SUBSET names }

\* get_audio_files: the files below the directory with an audio extension
GetAudioFiles(dir) == DOMAIN dir \cap AudioNames

\* Mutant of CopiesFile: the destination is not looked at.
CopiesFileAlways(dest, f) == TRUE

\* `if not os.path.exists(dest_path)`: the file is copied only then.
CopiesFile(dest, f) == f \notin DOMAIN dest

\* The files the copy loop visits.
FilesVisited(is_single_file, src) == IF is_single_file THEN {SingleFile} ELSE DOMAIN src

\* The value organize returns and the library directory it leaves.
Organize(exists, is_single_file, src, dest) ==
  IF ~exists \/ GetAudioFiles(src) = {}
  THEN [ok |-> FALSE, files_copied |-> {}, dest |-> dest]
  ELSE LET copied == {f \in FilesVisited(is_single_file, src) : CopiesFile(dest, f)}
       IN [ok |-> TRUE,
           files_copied |-> copied,
           dest |-> [f \in DOMAIN dest \cup copied |->
                       IF f \in copied THEN src[f] ELSE dest[f]]]

InitOrganize ==
  /\ NoProgram
  /\ call \in { [fn |-> "organize", exists |-> e, is_single_file |-> sf, src |-> sd,
                 dest |-> dd, runs |-> 0, ret |-> [ok |-> FALSE, files_copied |-> {}]] :
                 e \in BOOLEAN, sf \in BOOLEAN,
                 sd \in Dirs(SrcNames, {"new"}), dd \in Dirs(SrcNames, Contents) }
  /\ ~call.exists => DOMAIN call.src = {}
  /\ call.is_single_file => (call.exists /\ SingleFile \in DOMAIN call.src)

\* One run of organize on the source as it is; the source is only read.
OrganizeCall ==
  /\ call.fn = "organize" /\ call.runs < 2
  /\ LET out == Organize(call.exists, call.is_single_file, call.src, call.dest)
     IN call' = [call EXCEPT !.runs = @ + 1,
                             !.dest = out.dest,
                             !.ret = [ok |-> out.ok, files_copied |-> out.files_copied]]
  /\ UNCHANGED <<jobs, clock, monitoring_tasks, live, mon, startH, opH, library, removed, qb, reqs, result>>

NextOrganize == OrganizeCall

SpecOrganize == InitOrganize /\ [][NextOrganize]_vars

\* ----------------------------------------------------------- cleanup_download
\* Paths are strings, here sequences of the characters "/", "d" and "x";
\* the configured download path is "/d".
PathChars == {"/", "d", "x"}
StoragePath == <<"/", "d">>
Paths == UNION { [1..n -> PathChars] : n \in 0..MaxPathLen }

\* str.startswith
StartsWith(s, prefix) ==
  Len(s) >= Len(prefix) /\ SubSeq(s, 1, Len(prefix)) = prefix

\* `if download_path.startswith(self.download_path)`
InDownloadPath(path) == StartsWith(path, StoragePath)

\* cleanup_download: whether the path is deleted, given what the file system
\* makes of os.path.exists and of the removal.
CleanupDownload(path, fs) == fs = "removed" /\ InDownloadPath(path)

InitCleanupDownload ==
  /\ NoProgram
  /\ call \in { [fn |-> "cleanup_download", path |-> p, fs |-> fs, done |-> FALSE,
                 deleted |-> FALSE] : p \in Paths, fs \in FsOutcomes }

CleanupDownloadCall ==
  /\ call.fn = "cleanup_download" /\ ~call.done
  /\ call' = [call EXCEPT !.done = TRUE, !.deleted = CleanupDownload(call.path, call.fs)]
  /\ UNCHANGED <<jobs, clock, monitoring_tasks, live, mon, startH, opH, library, removed, qb, reqs, result>>

NextCleanupDownload == CleanupDownloadCall

SpecCleanupDownload == InitCleanupDownload /\ [][NextCleanupDownload]_vars

\* ------------------------------------------------------ the filename heuristic
\* extract_metadata_from_filename on strings, which are sequences of
\* characters; "ndash" stands for the en dash U+2013.  The names are made
\* of up to MaxTokens of these pieces.
Tokens ==
  { <<"a", "b", "c">>, <<"e">>, <<".">>, <<" ">>, <<"-">>, <<"ndash">>,
    <<" ", "B", "y", " ">>, <<"[">>, <<"]">> }
RECURSIVE Flatten(_)
Flatten(ts) == IF ts = <<>> THEN <<>> ELSE Head(ts) \o Flatten(Tail(ts))
Names == { Flatten(ts) : ts \in UNION { [1..n -> Tokens] : n \in 0..MaxTokens } }

IsSpace(c) == c = " "
\* the character class [-\u2013\u2014]
IsDash(c) == c \in {"-", "ndash", "mdash"}

SetMin(S) == CHOOSE x \in S : \A y \in S : x <= y
SetMax(S) == CHOOSE x \in S : \A y \in S : y <= x

\* str.strip(chars); str.strip() is StripChars(s, {" "})
StripChars(s, chars) ==
  LET keep == {i \in 1..Len(s) : s[i] \notin chars}
  IN IF keep = {} THEN <<>> ELSE SubSeq(s, SetMin(keep), SetMax(keep))
Strip(s) == StripChars(s, {" "})

\* os.path.splitext(filename)[0] for a name without a directory separator:
\* the name up to its last dot, unless only dots precede that dot.
SplitextRoot(s) ==
  LET dots == {i \in 1..Len(s) : s[i] = "."}
  IN IF dots = {} THEN s
     ELSE IF \E i \in 1..(SetMax(dots) - 1) : s[i] # "."
     THEN SubSeq(s, 1, SetMax(dots) - 1)
     ELSE s

\* The characters i+1..i+k of s are white space.
SpacesAt(s, i, k) == \A x \in (i + 1)..(i + k) : x <= Len(s) /\ IsSpace(s[x])

\* Mutant of ByMatches: the letters of by are compared as they are.
ByMatchesCaseSensitive(s) ==
  { <<i, k>> \in (0..Len(s)) \X (1..Len(s)) :
      /\ SpacesAt(s, i, k)
      /\ i + k + 3 <= Len(s)
      /\ s[i + k + 1] = "b" /\ s[i + k + 2] = "y"
      /\ IsSpace(s[i + k + 3]) }

\* r'^(.*?)\s+by\s+(.*)$' with re.IGNORECASE: the lengths i of group 1 for
\* which the rest matches, with the length k of the white space before by.
ByMatches(s) ==
  { <<i, k>> \in (0..Len(s)) \X (1..Len(s)) :
      /\ SpacesAt(s, i, k)
      /\ i + k + 3 <= Len(s)
      /\ LowerChar(s[i + k + 1]) = "b" /\ LowerChar(s[i + k + 2]) = "y"
      /\ IsSpace(s[i + k + 3]) }

\* r'^(.+?)\s*[-\u2013\u2014]{1,}\s*(.+)$': the lengths i >= 1 of group 1
\* for which the rest matches, with the length k of the white space before
\* the first dash; a character has to follow that dash.
DashMatches(s) ==
  { <<i, k>> \in (1..Len(s)) \X (0..Len(s)) :
      /\ SpacesAt(s, i, k)
      /\ i + k + 1 < Len(s)
      /\ IsDash(s[i + k + 1]) }

\* The lazy first group takes the shortest length that lets the rest match.
Shortest(ms) == CHOOSE m \in ms : \A o \in ms : m[1] <= o[1]

\* The end of the run of characters satisfying `in` that starts at p
\* (p - 1 when s[p] is not in the run).
RECURSIVE RunEnd(_, _, _)
RunEnd(s, p, chars) ==
  IF p <= Len(s) /\ s[p] \in chars THEN RunEnd(s, p + 1, chars) ELSE p - 1

\* Group 2 of the dash pattern for a first dash at p: the dashes and the
\* white space are greedy, and give one character back when nothing is left.
DashGroup2(s, p) ==
  LET e == RunEnd(s, p, {"-", "ndash", "mdash"})
      f == RunEnd(s, e + 1, {" "})
  IN IF f < Len(s) THEN SubSeq(s, f + 1, Len(s)) ELSE <<s[Len(s)]>>

UnknownAuthor == <<"U", "n", "k", "n", "o", "w", "n", " ", "A", "u", "t", "h", "o", "r">>

\* The final clean-up, reached only when no pattern returned.
Fallback(name) ==
  [author |-> StripChars(Strip(UnknownAuthor), {"."}),
   title |-> StripChars(Strip(name), {"."}),
   pattern |-> "fallback"]

\* pattern: which return statement produced the value
ExtractMetadata(filename) ==
  LET name == SplitextRoot(filename)
      n == Len(name)
  IN IF ByMatches(name) # {}
     THEN LET m == Shortest(ByMatches(name))
          IN [author |-> Strip(SubSeq(name, m[1] + m[2] + 3, n)),
              title |-> Strip(SubSeq(name, 1, m[1])),
              pattern |-> "by"]
     ELSE IF n >= 2 /\ name[n] = "]" /\ \E q \in 1..(n - 1) : name[q] = "["
     THEN LET q == SetMin({x \in 1..(n - 1) : name[x] = "["})
          IN [author |-> Strip(SubSeq(name, q + 1, n - 1)),
              title |-> Strip(SubSeq(name, 1, q - 1)),
              pattern |-> "bracket"]
     ELSE IF DashMatches(name) # {}
     THEN LET m == Shortest(DashMatches(name))
              author_candidate == Strip(SubSeq(name, 1, m[1]))
              title_candidate == Strip(DashGroup2(name, m[1] + m[2] + 1))
          IN IF Len(author_candidate) > 2 /\ Len(title_candidate) > 2
             THEN [author |-> author_candidate, title |-> title_candidate, pattern |-> "dash"]
             ELSE Fallback(name)
     ELSE Fallback(name)

InitFilename ==
  /\ NoProgram
  /\ call \in { [fn |-> "extract_metadata", filename |-> f, done |-> FALSE,
                 ret |-> Fallback(<<>>)] : f \in Names }

ExtractMetadataCall ==
  /\ call.fn = "extract_metadata" /\ ~call.done
  /\ call' = [call EXCEPT !.done = TRUE, !.ret = ExtractMetadata(call.filename)]
  /\ UNCHANGED <<jobs, clock, monitoring_tasks, live, mon, startH, opH, library, removed, qb, reqs, result>>

NextFilename == ExtractMetadataCall

SpecFilename == InitFilename /\ [][NextFilename]_vars

\* -------------------------------------------------------- _make_filesystem_safe
\* The character class [<>:"/\\|?*]; "quote" stands for the double quote
\* and "backslash" for the backslash.
UnsafeChars == {"<", ">", ":", "quote", "/", "backslash", "|", "?", "*"}
SafeInputChars == UnsafeChars \cup {"a", ".", " "}

\* The names: a tail of up to MaxTail characters, alone or after a run of
\* letters that ends one character before the limit.
Letters(n) == [i \in 1..n |-> "a"]
Tails == UNION { [1..n -> SafeInputChars] : n \in 0..MaxTail }
SafeInputs == { Letters(n) \o t : n \in {0, NameLimit - 1}, t \in Tails }

\* re.sub(class, '_', name), then strip('. '), then [:100]
MakeFilesystemSafe(name) ==
  LET replaced == [i \in 1..Len(name) |-> IF name[i] \in UnsafeChars THEN "_" ELSE name[i]]
      stripped == StripChars(replaced, {".", " "})
  IN SubSeq(stripped, 1, IF Len(stripped) < NameLimit THEN Len(stripped) ELSE NameLimit)

InitSafe ==
  /\ NoProgram
  /\ call \in { [fn |-> "make_filesystem_safe", name |-> n, done |-> FALSE, ret |-> <<>>] :
                 n \in SafeInputs }

MakeFilesystemSafeCall ==
  /\ call.fn = "make_filesystem_safe" /\ ~call.done
  /\ call' = [call EXCEPT !.done = TRUE, !.ret = MakeFilesystemSafe(call.name)]
  /\ UNCHANGED <<jobs, clock, monitoring_tasks, live, mon, startH, opH, library, removed, qb, reqs, result>>

NextSafe == MakeFilesystemSafeCall

SpecSafe == InitSafe /\ [][NextSafe]_vars

\* ------------------------------------------- the organizer on a single file
\* organize_downloaded_audiobook on a download path that is a file, up to
\* the metadata it returns.  Names are strings as in the filename
\* heuristic; the directory that holds the file has a name and holds other
\* files, in it or below it.
AudioExtensions ==
  { <<".", "m", "p", "3">>, <<".", "m", "4", "b">>, <<".", "m", "4", "a">>,
    <<".", "f", "l", "a", "c">>, <<".", "a", "a", "c">>, <<".", "o", "g", "g">>,
    <<".", "w", "a", "v">> }

\* Path(file).suffix: the name from its last dot on
Suffix(name) == SubSeq(name, Len(SplitextRoot(name)) + 1, Len(name))

\* `Path(file).suffix.lower() in audio_extensions`
IsAudioName(name) == Lower(Suffix(name)) \in AudioExtensions

\* get_audio_files on a directory with these file names in or below it
AudioFilesIn(files) == {f \in files : IsAudioName(f)}

\* The file names, plain, author - title and title by author, each as an
\* audio file and as an image; the other files; the directory names, plain
\* and author - title.
Abc == <<"a", "b", "c">>
Eee == <<"e", "e", "e">>
SingleStems == { Abc, Abc \o <<" ", "-", " ">> \o Eee, Eee \o <<" ", "B", "y", " ">> \o Abc }
SingleExts == { <<".", "m", "p", "3">>, <<".", "j", "p", "g">> }
SingleNames == { st \o ext : st \in SingleStems, ext \in SingleExts }
OtherFiles == { <<"x", ".", "M", "P", "3">>, <<"y", ".", "n", "f", "o">>, <<"z", ".", "m", "4", "b">> }
FolderNames == { <<"d", "l">>, <<"e", "-", "b", "o", "o", "k", "s">> \o <<" ", "-", " ">> \o <<"n", "e", "w">> }

NoMetadata == [none |-> TRUE]

\* `if file_metadata['author'] != 'Unknown Author': metadata = file_metadata`
PrefersFileMetadata(file_metadata) == file_metadata.author # UnknownAuthor

\* The single-file branch: download_dir is the directory of the file, the
\* audio files are looked for in that directory, the metadata is taken from
\* the directory name and replaced by that of the file name when the
\* heuristic found an author in it.  None, or the author and title returned.
OrganizeSingle(folder_name, file_name, others) ==
  IF AudioFilesIn({file_name} \cup others) = {}
  THEN NoMetadata
  ELSE LET metadata == ExtractMetadata(folder_name)
           file_metadata == ExtractMetadata(file_name)
           chosen == IF PrefersFileMetadata(file_metadata) THEN file_metadata ELSE metadata
       IN [author |-> chosen.author, title |-> chosen.title]

InitSingle ==
  /\ NoProgram
  /\ call \in { [fn |-> "organize_single", folder |-> d, file |-> f, others |-> o,
                 done |-> FALSE, ret |-> NoMetadata] :
                 d \in FolderNames, f \in SingleNames, o \in SUBSET OtherFiles }

OrganizeSingleCall ==
  /\ call.fn = "organize_single" /\ ~call.done
  /\ call' = [call EXCEPT !.done = TRUE,
                          !.ret = OrganizeSingle(call.folder, call.file, call.others)]
  /\ UNCHANGED <<jobs, clock, monitoring_tasks, live, mon, startH, opH, library, removed, qb, reqs, result>>

NextSingle == OrganizeSingleCall

SpecSingle == InitSingle /\ [][NextSingle]_vars

\* ------------------------------------------------------------- the adapter
\* QBittorrentClient: MaxRequests operations (add_torrent, get_torrents,
\* delete_torrent) called concurrently on the singleton by monitoring tasks
\* and request handlers.  A step is the code of one operation between two
\* awaits of the HTTP client.
AdapterOps == {"add_torrent", "get_torrents", "delete_torrent"}

\* What the operation's except clause returns.
FailureValue(op) == IF op = "get_torrents" THEN "[]" ELSE "False"

\* What the daemon answers to a request: 200, 403, or anything else
\* (another status, a transport error, a timeout), which raises.  A
\* request on a session that has been closed meanwhile raises.
Answers == {"200", "403", "error"}
AnswersOn(sess) == IF sess = qb.session THEN Answers ELSE {"error"}

\* login() up to the await of its POST: the current session is closed and
\* replaced by a new one, on which the POST is sent.
LoginStart == [qb EXCEPT !.session = qb.made + 1, !.made = @ + 1]

\* login() resumed with the answer to its POST on session sess: True only
\* for 200 with the text Ok., which sets cookies and _login_time.
LoginOk(sess, answer) == sess = qb.session /\ answer = "200"
LoginEnd(ok) == IF ok THEN [qb EXCEPT !.login_time = 1] ELSE qb

\* The operation is called and _make_request runs _ensure_login: with no
\* login so far (_login_time = 0) or one older than the ttl it calls
\* login, otherwise the request is sent on the current session.
RequestBegin(r, op, expired) ==
  /\ reqs[r].pc = "idle"
  /\ IF qb.login_time = 0 \/ expired
     THEN /\ qb' = LoginStart
          /\ reqs' = [reqs EXCEPT ![r] = [IdleReq EXCEPT !.pc = "ensure_login", !.op = op,
                                                          !.sess = qb.made + 1]]
     ELSE /\ qb' = qb
          /\ reqs' = [reqs EXCEPT ![r] = [IdleReq EXCEPT !.pc = "await_resp", !.op = op,
                                                          !.sess = qb.session, !.sends = 1]]
  /\ UNCHANGED <<jobs, clock, monitoring_tasks, live, mon, startH, opH, library, removed, call, result>>

\* _ensure_login resumed: the result of login is ignored and the request
\* is sent on the session the client has now.
EnsureLoginDone(r, answer) ==
  /\ reqs[r].pc = "ensure_login"
  /\ answer \in AnswersOn(reqs[r].sess)
  /\ qb' = LoginEnd(LoginOk(reqs[r].sess, answer))
  /\ reqs' = [reqs EXCEPT ![r].pc = "await_resp", ![r].sess = qb.session, ![r].sends = 1]
  /\ UNCHANGED <<jobs, clock, monitoring_tasks, live, mon, startH, opH, library, removed, call, result>>

\* The answer to the request: 200 is handled and returned, 403 calls
\* login, anything else raises and the operation returns its failure value.
Response(r, answer) ==
  /\ reqs[r].pc = "await_resp"
  /\ answer \in AnswersOn(reqs[r].sess)
  /\ IF answer = "403"
     THEN /\ qb' = LoginStart
          /\ reqs' = [reqs EXCEPT ![r].pc = "relogin", ![r].sess = qb.made + 1,
                                   ![r].relogins = @ + 1]
     ELSE /\ qb' = qb
          /\ reqs' = [reqs EXCEPT ![r].pc = "done", ![r].sess = 0,
                                   ![r].ret = IF answer = "200" THEN "value"
                                              ELSE FailureValue(reqs[r].op)]
  /\ UNCHANGED <<jobs, clock, monitoring_tasks, live, mon, startH, opH, library, removed, call, result>>

\* The login of the 403 branch resumed: after True the request is sent
\* once more, after False "Re-authentication failed" is raised.
ReloginDone(r, answer) ==
  /\ reqs[r].pc = "relogin"
  /\ answer \in AnswersOn(reqs[r].sess)
  /\ qb' = LoginEnd(LoginOk(reqs[r].sess, answer))
  /\ IF LoginOk(reqs[r].sess, answer)
     THEN reqs' = [reqs EXCEPT ![r].pc = "await_retry", ![r].sess = qb.session,
                               ![r].sends = @ + 1]
     ELSE reqs' = [reqs EXCEPT ![r].pc = "done", ![r].sess = 0,
                               ![r].ret = FailureValue(reqs[r].op)]
  /\ UNCHANGED <<jobs, clock, monitoring_tasks, live, mon, startH, opH, library, removed, call, result>>

\* Mutant of RetryResponse: a second 403 logs in again.
RetryResponseLogsInAgain(r, answer) ==
  /\ reqs[r].pc = "await_retry"
  /\ answer \in AnswersOn(reqs[r].sess)
  /\ IF answer = "403"
     THEN /\ qb' = LoginStart
          /\ reqs' = [reqs EXCEPT ![r].pc = "relogin", ![r].sess = qb.made + 1,
                                   ![r].relogins = @ + 1]
     ELSE /\ qb' = qb
          /\ reqs' = [reqs EXCEPT ![r].pc = "done", ![r].sess = 0,
                                   ![r].ret = IF answer = "200" THEN "value"
                                              ELSE FailureValue(reqs[r].op)]
  /\ UNCHANGED <<jobs, clock, monitoring_tasks, live, mon, startH, opH, library, removed, call, result>>

\* The answer to the retried request goes to _handle_response: 200 is
\* returned, every other status raises.
RetryResponse(r, answer) ==
  /\ reqs[r].pc = "await_retry"
  /\ answer \in AnswersOn(reqs[r].sess)
  /\ qb' = qb
  /\ reqs' = [reqs EXCEPT ![r].pc = "done", ![r].sess = 0,
                           ![r].ret = IF answer = "200" THEN "value"
                                      ELSE FailureValue(reqs[r].op)]
  /\ UNCHANGED <<jobs, clock, monitoring_tasks, live, mon, startH, opH, library, removed, call, result>>

InitAdapter ==
  /\ NoProgram
  /\ call = NoCall

NextAdapter ==
  \/ \E r \in 1..MaxRequests, op \in AdapterOps, expired \in BOOLEAN : RequestBegin(r, op, expired)
  \/ \E r \in 1..MaxRequests, answer \in Answers : EnsureLoginDone(r, answer)
  \/ \E r \in 1..MaxRequests, answer \in Answers : Response(r, answer)
  \/ \E r \in 1..MaxRequests, answer \in Answers : ReloginDone(r, answer)
  \/ \E r \in 1..MaxRequests, answer \in Answers : RetryResponse(r, answer)

SpecAdapter == InitAdapter /\ [][NextAdapter]_vars

\* ================================================================== claims
TerminalStatuses == {"completed", "completed_with_warning", "failed", "cancelled"}
NonTerminalStatuses == {"pending", "starting", "downloading", "processing"}

\* The lifecycle graph of the job status.
LifecycleEdges ==
  {<<"starting", "downloading">>, <<"downloading", "processing">>,
   <<"processing", "completed">>, <<"processing", "completed_with_warning">>}
  \cup { <<s, "failed">> : s \in {"starting", "downloading", "processing"} }
  \cup { <<s, "cancelled">> : s \in NonTerminalStatuses }

\* The row of job j is there before and after the step.
Kept(j) == Exists(j) /\ jobs'[j] # NoJob

\* C1: every change of a job's status is an edge of the lifecycle graph; no
\* status change leaves completed, completed_with_warning, failed or
\* cancelled, and none goes from processing back to downloading.
C1_OnlyLifecycleEdges ==
  [][\A j \in Ids :
       (Kept(j) /\ jobs'[j].status # jobs[j].status)
         => <<jobs[j].status, jobs'[j].status>> \in LifecycleEdges]_vars

\* The step in which the completion pipeline of job j organizes the files.
Organizes(j) == mon[j].pc = "sleep2" /\ mon'[j].pc = "await_libs"

\* C2: once the status of a job is cancelled, no step of start, of the
\* monitoring task or of the completion pipeline changes its status, progress
\* or output path, or organizes its files into the library.
C2_NoWriteAfterCancel ==
  [][\A j \in Ids :
       (Kept(j) /\ jobs[j].status = "cancelled")
         => /\ jobs'[j].status = "cancelled"
            /\ jobs'[j].progress = jobs[j].progress
            /\ jobs'[j].download_path = jobs[j].download_path
            /\ ~Organizes(j)]_vars

\* The step is a tick of job j that matched a transfer of the listing and
\* leaves its hash in the row.
MatchedTickBinds(j) ==
  \E listed \in Listings :
    /\ mon[j].pc = "await_list"
    /\ Match(j, mon[j].title, mon[j].loaded.created_at, listed) # 0
    /\ TickAfterList(j, TRUE, listed)
    /\ jobs'[j].torrent_hash =
         listed[Match(j, mon[j].title, mon[j].loaded.created_at, listed)].hash

\* C3: once torrent_hash holds a value, no step changes it to another value,
\* and it gets its first value only in a tick that matched a transfer.
C3_HashWriteOnce ==
  [][\A j \in Ids :
       Kept(j) =>
         /\ jobs[j].torrent_hash # NoHash
              => jobs'[j].torrent_hash = jobs[j].torrent_hash
         /\ (jobs[j].torrent_hash = NoHash /\ jobs'[j].torrent_hash # NoHash)
              => MatchedTickBinds(j)]_vars

\* C3 witness: a tick that matched transfer h2 has run for a job whose hash
\* was bound to h1 before, and the hash is still h1.
C3_Witness ==
  \E j \in Ids :
    /\ Exists(j)
    /\ jobs[j].torrent_hash = "h1"
    /\ jobs[j].download_path = JoinPath(DownloadRoot, <<"d", "u", "x">>)

\* C4: there is never more than one unfinished monitoring task for a job id.
C4_OneTaskPerJob == \A j \in Ids : live[j] <= 1

\* C4 witness: a start has just requested monitoring with success for an id
\* whose earlier task was still registered and running (it has ticks behind
\* it), and still only one task runs.
C4_Witness ==
  \E j \in Ids :
    /\ result = [op |-> "start", job |-> j, val |-> "job"]
    /\ Exists(j) /\ jobs[j].status = "downloading"
    /\ mon[j].attempts > 0 /\ mon[j].pc \in {"loop", "await_list"}
    /\ j \in monitoring_tasks
    /\ live[j] = 1

\* C5: while the status stays downloading, the progress never decreases.
C5_ProgressMonotone ==
  [][\A j \in Ids :
       (Kept(j) /\ jobs[j].status = "downloading" /\ jobs'[j].status = "downloading")
         => jobs'[j].progress >= jobs[j].progress]_vars

\* C6: a job for which no tick ever matched a transfer (its hash is unbound),
\* and which is not cancelled, is downloading while its task runs its first
\* 120 ticks, is failed with the "not found" message by tick 121, and its
\* task has then ended and left the registry; it never enters the pipeline.
C6_NotFoundTimeout ==
  \A j \in Ids :
    (Exists(j) /\ jobs[j].torrent_hash = NoHash /\ jobs[j].status # "cancelled"
       /\ mon[j].pc # "none")
      => /\ mon[j].pc \in {"init", "loop", "await_list", "done"}
         /\ mon[j].pc = "loop" => mon[j].attempts <= GraceAttempts
         /\ mon[j].pc = "await_list" => mon[j].attempts <= GraceAttempts + 1
         /\ mon[j].pc # "done"
              => jobs[j].status = "downloading" /\ j \in monitoring_tasks /\ live[j] = 1
         /\ mon[j].pc = "done"
              => /\ jobs[j].status = "failed"
                 /\ jobs[j].error_message = MsgNotFound
                 /\ mon[j].attempts = GraceAttempts + 1
                 /\ j \notin monitoring_tasks
                 /\ live[j] = 0

\* C6 witness: the task of a never-matched job has ended at tick 121 with the
\* job failed for "not found".
C6_Witness ==
  \E j \in Ids :
    /\ Exists(j) /\ jobs[j].torrent_hash = NoHash
    /\ jobs[j].status = "failed" /\ jobs[j].error_message = MsgNotFound
    /\ mon[j].pc = "done" /\ mon[j].attempts = 121
    /\ j \notin monitoring_tasks

\* C7: when the monitoring task of a job has ended, the job is in a terminal
\* status (in particular after the attempt budget is used up).
C7_EndedTaskTerminal ==
  \A j \in Ids :
    (Exists(j) /\ mon[j].pc = "done") => jobs[j].status \in TerminalStatuses

\* C8: a job whose hash is bound is never failed with the "not found" message.
C8_NotFoundOnlyUnbound ==
  \A j \in Ids :
    (Exists(j) /\ jobs[j].torrent_hash # NoHash)
      => ~(jobs[j].status = "failed" /\ jobs[j].error_message = MsgNotFound)

\* C9: a tick whose list call failed leaves the status of the job as it was
\* and the loop goes on to its next tick.
C9_FailedListKeepsStatus ==
  [][\A j \in Ids :
       (Exists(j) /\ TickAfterList(j, FALSE, <<>>))
         => jobs'[j].status = jobs[j].status /\ mon'[j].pc = "loop"]_vars

\* C10: cancel on a job in a terminal status returns True, awaits no adapter
\* call and leaves the row unchanged.
C10_CancelTerminalNoop ==
  [][\A j \in Ids :
       (Exists(j) /\ jobs[j].status \in TerminalStatuses /\ Cancel(j))
         => /\ jobs' = jobs
            /\ opH'[j].pc = "idle"
            /\ result' = [op |-> "cancel", job |-> j, val |-> "True"]]_vars

\* The cancel call on job j that returned in the last step returned True.
CancelReturnedTrue(j) == result = [op |-> "cancel", job |-> j, val |-> "True"]

\* C11 as stated: every cancel call on an existing job returns True, and a
\* second call right after the first returns True with the status terminal
\* and as the first call left it.
C11_CancelTwiceSucceeds ==
  [][\A j \in Ids :
       /\ (Exists(j) /\ result'.op = "cancel" /\ result'.job = j) => result'.val = "True"
       /\ (CancelReturnedTrue(j) /\ Cancel(j))
            => /\ result' = [op |-> "cancel", job |-> j, val |-> "True"]
               /\ jobs'[j].status = jobs[j].status
               /\ jobs'[j].status \in TerminalStatuses]_vars

\* C11 amended: when a cancel call returned True, a second cancel call made
\* right after it returns True at once, awaits no adapter call, and leaves
\* the status as the first call left it, which is a terminal status.
C11_CancelAgainStable ==
  [][\A j \in Ids :
       (CancelReturnedTrue(j) /\ Cancel(j))
         => /\ result' = [op |-> "cancel", job |-> j, val |-> "True"]
            /\ opH'[j].pc = "idle"
            /\ jobs'[j].status = jobs[j].status
            /\ jobs'[j].status \in TerminalStatuses]_vars

\* C11 witness: a cancel call has returned True for a job whose transfer is
\* bound and left it cancelled; the second call finds it in this state.
C11_Witness ==
  \E j \in Ids :
    /\ CancelReturnedTrue(j)
    /\ Exists(j) /\ jobs[j].torrent_hash # NoHash
    /\ jobs[j].status = "cancelled" /\ jobs[j].error_message = MsgCancelled
    /\ opH[j].pc = "idle"

\* C12: cancel on a non-terminal job with a bound hash awaits delete_torrent
\* and writes nothing before; resumed on a job that is still there, a failed
\* delete makes it return False with status and message as they are, and a
\* successful one makes it return True with status cancelled.
C12_CancelFollowsAdapter ==
  [][\A j \in Ids :
       /\ (Exists(j) /\ jobs[j].status \in NonTerminalStatuses
             /\ jobs[j].torrent_hash # NoHash /\ Cancel(j))
            => /\ opH'[j].pc = "cancel_await"
               /\ jobs' = jobs
               /\ result' = NoResult
       /\ (Exists(j) /\ CancelAfterDelete(j, FALSE))
            => /\ result' = [op |-> "cancel", job |-> j, val |-> "False"]
               /\ jobs'[j].status = jobs[j].status
               /\ jobs'[j].error_message = jobs[j].error_message
       /\ (Exists(j) /\ CancelAfterDelete(j, TRUE))
            => /\ result' = [op |-> "cancel", job |-> j, val |-> "True"]
               /\ jobs'[j].status = "cancelled"]_vars

\* C12 witness: cancel has returned False for a job that is still
\* downloading with its hash bound: the adapter's delete had failed.
C12_Witness ==
  \E j \in Ids :
    /\ result = [op |-> "cancel", job |-> j, val |-> "False"]
    /\ Exists(j) /\ jobs[j].torrent_hash # NoHash
    /\ jobs[j].status = "downloading"

\* The rows in the table.
Rows == {k \in Ids : Exists(k)}

\* C13: start on an existing search result inserts exactly one job; resumed
\* after a successful submit it returns the job in status downloading with
\* exactly one monitoring task registered and running for it; resumed after
\* a failed submit it returns the job failed with an error message and no
\* monitoring task is registered or running for it.
C13_StartSpawnsIffSubmitted ==
  [][\A j \in Ids :
       /\ (\E r \in ResultIds : StartBegin(r, MaxStarts) /\ j = NextId)
            => /\ ~Exists(j)
               /\ {k \in Ids : jobs'[k] # NoJob} = Rows \cup {j}
       /\ (Exists(j) /\ StartAfterAdd(j, TRUE))
            => /\ result' = [op |-> "start", job |-> j, val |-> "job"]
               /\ jobs'[j].status = "downloading"
               /\ j \in monitoring_tasks'
               /\ live'[j] = 1
       /\ (Exists(j) /\ StartAfterAdd(j, FALSE))
            => /\ result' = [op |-> "start", job |-> j, val |-> "job"]
               /\ jobs'[j].status = "failed"
               /\ jobs'[j].error_message # NoMsg
               /\ j \notin monitoring_tasks'
               /\ live'[j] = 0]_vars

\* C14: a start call whose search result does not exist returns None and
\* leaves the job table, the calls in flight to the transfer daemon and the
\* monitoring tasks as they are; every job in the table refers to a search
\* result that exists.
C14_StartUnknownResult ==
  [][/\ \A r \in RequestedResultIds \ ResultIds :
          StartNotFound(r)
            => /\ result' = [op |-> "start", job |-> 0, val |-> "None"]
               /\ jobs' = jobs
               /\ startH' = startH
               /\ monitoring_tasks' = monitoring_tasks
               /\ live' = live /\ mon' = mon
     /\ \A j \in Ids : jobs'[j] # NoJob => jobs'[j].search_result_id \in ResultIds]_vars

\* C14 witness: a start call has returned None with a downloading job in
\* the table, and the table holds no row for the requested search result.
C14_Witness ==
  /\ result = [op |-> "start", job |-> 0, val |-> "None"]
  /\ \E j \in Ids : Exists(j) /\ jobs[j].status = "downloading"
  /\ \A j \in Ids : Exists(j) => jobs[j].search_result_id \in ResultIds

\* The step in which the pipeline of job j sets the status it ends with
\* after a successful organize.
PipelineEnds(j) ==
  /\ mon[j].pc \in {"await_libs", "await_scan"}
  /\ mon'[j].pc = "done"
  /\ Kept(j)

\* C15: the pipeline ends in completed only when a library was listed and
\* some scan call returned True; when no library is listed or no scan call
\* returned True it ends in completed_with_warning with an error message.
C15_CompletedNeedsScan ==
  [][\A j \in Ids :
       PipelineEnds(j)
         => IF mon[j].pc = "await_scan" /\ mon'[j].scanned
            THEN jobs'[j].status = "completed"
            ELSE /\ jobs'[j].status = "completed_with_warning"
                 /\ jobs'[j].error_message # NoMsg]_vars

\* C16: in the step that makes a job completed its download path is removed
\* from the download directory; the step that makes it
\* completed_with_warning removes nothing and the organized files are in the
\* library.
C16_CompletedCleansSource ==
  [][\A j \in Ids :
       /\ (Kept(j) /\ jobs[j].status # "completed" /\ jobs'[j].status = "completed")
            => jobs'[j].download_path \in removed'
       /\ (Kept(j) /\ jobs[j].status # "completed_with_warning"
             /\ jobs'[j].status = "completed_with_warning")
            => /\ removed' = {}
               /\ jobs'[j].download_path # NoPath
                    => jobs'[j].download_path[2] \in library']_vars

\* C17: the pipeline reaches the catalog only through a successful organize;
\* when the organizer returns None the job is failed with the organize
\* message, the task ends without a catalog call, and nothing is removed
\* from the download directory or added to the library.
C17_OrganizeFailureStops ==
  [][\A j \in Ids :
       /\ (Exists(j) /\ ProcessAfterSleep(j, FALSE))
            => /\ jobs'[j].status = "failed"
               /\ jobs'[j].error_message = MsgOrganize
               /\ mon'[j].pc = "done"
               /\ removed' = {}
               /\ library' = library
       /\ (mon[j].pc # "await_libs" /\ mon'[j].pc = "await_libs")
            => /\ mon[j].pc = "sleep2"
               /\ Kept(j) /\ jobs[j].download_path[2] \in library'
       /\ (mon[j].pc # "await_scan" /\ mon'[j].pc = "await_scan")
            => mon[j].pc = "await_libs"]_vars

\* C17 witness: the task of a job whose transfer completed has ended with
\* the job failed for the organizer.
C17_Witness ==
  \E j \in Ids :
    /\ Exists(j) /\ jobs[j].download_path # NoPath
    /\ jobs[j].status = "failed" /\ jobs[j].error_message = MsgOrganize
    /\ mon[j].pc = "done" /\ j \notin monitoring_tasks

\* C18: delete on an existing job removes the row and returns True whatever
\* the file system and the adapter answer; it removes the download path only
\* when delete_files is set and the path exists, and it awaits the adapter's
\* delete exactly when a hash is bound.
C18_DeleteBestEffort ==
  [][\A j \in Ids :
       /\ (opH' # opH \/ result'.op = "delete")
            => \A delete_files \in BOOLEAN, fs \in FsOutcomes :
                 (Exists(j) /\ Delete(j, delete_files, fs))
                   => /\ removed' # {}
                           => /\ delete_files /\ fs = "removed"
                              /\ removed' = {jobs[j].download_path}
                      /\ IF jobs[j].torrent_hash # NoHash
                         THEN opH'[j].pc = "delete_await" /\ jobs' = jobs
                         ELSE /\ opH'[j].pc = "idle"
                              /\ jobs'[j] = NoJob
                              /\ result' = [op |-> "delete", job |-> j, val |-> "True"]
       /\ DeleteAfterTorrent(j)
            => /\ jobs'[j] = NoJob
               /\ result' = [op |-> "delete", job |-> j, val |-> "True"]
               /\ removed' = {}]_vars

\* C18 witness: delete has returned True for a job whose row is gone, while
\* the delete call of another job is still awaiting the adapter.
C18_Witness ==
  \E j \in Ids :
    /\ result = [op |-> "delete", job |-> j, val |-> "True"]
    /\ ~Exists(j)
    /\ opH[j].pc = "idle"
    /\ \E k \in Ids \ {j} : opH[k].pc = "delete_await" /\ Exists(k)

\* C19: cleanup removes exactly the rows whose status is completed,
\* cancelled or failed and whose creation time is before the cutoff, leaves
\* every other row as it is, and returns the number of rows it removed.
C19_CleanupExactly ==
  [][result'.op = "cleanup"
       => \A cutoff \in 1..(clock + 1) :
            (\E gone \in SUBSET Ids : Cleanup(cutoff, gone))
              => /\ \A j \in Ids :
                      jobs'[j] = IF /\ Exists(j)
                                    /\ jobs[j].status \in {"completed", "cancelled", "failed"}
                                    /\ jobs[j].created_at < cutoff
                                 THEN NoJob
                                 ELSE jobs[j]
                 /\ result' = [op |-> "cleanup", job |-> 0,
                               val |-> Cardinality({j \in Ids : Exists(j) /\ jobs'[j] = NoJob})]]_vars

\* C19 witness: cleanup has returned 1 and left a row behind that is as old
\* as the cutoff allows but not in one of the three statuses.
C19_Witness ==
  /\ result = [op |-> "cleanup", job |-> 0, val |-> 1]
  /\ \E j \in Ids : Exists(j) /\ jobs[j].status = "downloading" /\ jobs[j].created_at = 1
  /\ \E j \in Ids : ~Exists(j)

\* C20: for every row it removes, cleanup removes the row's download path
\* when the path exists (and the removal does not raise), and has the
\* adapter delete the row's transfer when a hash is bound.
C20_CleanupLikeDelete ==
  [][result'.op = "cleanup"
       => \A cutoff \in 1..(clock + 1), gone \in SUBSET Ids :
            Cleanup(cutoff, gone)
              => \A j \in Ids :
                   (Exists(j) /\ jobs'[j] = NoJob)
                     => /\ j \in gone => jobs[j].download_path \in removed'
                        /\ jobs[j].torrent_hash # NoHash => opH'[j].pc = "delete_await"]_vars

\* C21: in every reachable state a job whose status is failed, cancelled or
\* completed_with_warning has an error message.
C21_TerminalHasMessage ==
  \A j \in Ids :
    (Exists(j) /\ jobs[j].status \in {"failed", "cancelled", "completed_with_warning"})
      => jobs[j].error_message # NoMsg

\* The listed transfers that carry the tag of job j as one of their tags.
CarriesTag(j, torrents) == {i \in 1..Len(torrents) : j \in torrents[i].tags}

\* The listed transfers whose name contains the title, whatever the case of
\* the letters, and which were added less than 300 seconds from the creation
\* of the job.
NamedAndRecent(torrents) ==
  {i \in 1..Len(torrents) :
     /\ IsSubstring(Lower(MatchTitle), Lower(torrents[i].name))
     /\ torrents[i].added_on - MatchCreated < 300
     /\ MatchCreated - torrents[i].added_on < 300}

\* C22: the matcher returns a transfer carrying the job's tag whenever the
\* listing has one; otherwise the first listed transfer that matches by name
\* and time; otherwise no transfer.
C22_MatcherPrefersTag ==
  (call.fn = "match" /\ call.done)
    => IF CarriesTag(call.job, call.torrents) # {}
       THEN call.ret \in CarriesTag(call.job, call.torrents)
       ELSE IF NamedAndRecent(call.torrents) # {}
       THEN /\ call.ret \in NamedAndRecent(call.torrents)
            /\ \A i \in NamedAndRecent(call.torrents) : call.ret <= i
       ELSE call.ret = 0

\* C23: the tag strategy selects a transfer only if the job's own tag is one
\* of the transfer's tags: never the transfer submitted for another job.
C23_TagIsWholeTag ==
  (call.fn = "match" /\ call.done /\ call.by_tag # 0)
    => call.job \in call.torrents[call.by_tag].tags

\* C24: the second of two runs of organize on the same source succeeds when
\* the first did, copies no file, and leaves every file of the library and
\* of the source as it is; no run changes a file the library already has.
C24_OrganizeTwice ==
  [][OrganizeCall
       => /\ \A f \in DOMAIN call.dest :
               f \in DOMAIN call'.dest /\ call'.dest[f] = call.dest[f]
          /\ call'.src = call.src
          /\ call.runs = 1
               => /\ call'.ret.ok = call.ret.ok
                  /\ call'.ret.files_copied = {}
                  /\ call'.dest = call.dest]_vars

\* C24 witness: the second run has succeeded on a directory of which the
\* library had one file, with other contents, before the first run.
C24_Witness ==
  /\ call.fn = "organize" /\ call.runs = 2 /\ call.ret.ok
  /\ ~call.is_single_file
  /\ DOMAIN call.src = SrcNames /\ DOMAIN call.dest = SrcNames
  /\ call.dest["cover.jpg"] = "old" /\ call.dest["a.mp3"] = "new"

\* The path is the download root or lies below it.
IsSubPath(path) ==
  path = StoragePath \/ StartsWith(path, StoragePath \o <<"/">>)

\* C25: cleanup_download deletes a path only if it lies inside the
\* configured download root; a path whose string merely begins with the
\* string of the root is not deleted.
C25_CleanupInsideRoot ==
  (call.fn = "cleanup_download" /\ call.done /\ call.deleted) => IsSubPath(call.path)

\* The string neither begins nor ends with a dot or a space.
NoEdgeDotOrSpace(s) ==
  s = <<>> \/ (s[1] \notin {".", " "} /\ s[Len(s)] \notin {".", " "})

\* C26: whichever pattern matched, the author and the title the filename
\* heuristic returns neither begin nor end with a dot or a space.
C26_FieldsTrimmed ==
  (call.fn = "extract_metadata" /\ call.done)
    => NoEdgeDotOrSpace(call.ret.author) /\ NoEdgeDotOrSpace(call.ret.title)

\* Equality of two strings up to leading and trailing dots and spaces.
SameTrimmed(s, t) == StripChars(s, {".", " "}) = StripChars(t, {".", " "})

\* The positions of a word by, in either case, with white space on both sides.
ByWords(n) ==
  {p \in 2..(Len(n) - 2) :
     /\ n[p - 1] = " " /\ n[p + 2] = " "
     /\ n[p] \in {"b", "B"} /\ n[p + 1] \in {"y", "Y"}}

\* The name ends with a bracket that was opened before.
OpenBrackets(n) == IF Len(n) >= 2 /\ n[Len(n)] = "]"
                   THEN {q \in 1..(Len(n) - 1) : n[q] = "["}
                   ELSE {}

\* The positions of a dash-like character with text before and after it.
Separators(n) == {p \in 2..(Len(n) - 1) : n[p] \in {"-", "ndash", "mdash"}}

\* What the ordered patterns make of a name without its extension: title by
\* author, title [author], author - title split at the first separator with
\* at least 3 characters on each side, else the name as the title.
Expected(n) ==
  IF ByWords(n) # {}
  THEN LET p == SetMin(ByWords(n))
       IN [pattern |-> "by", title |-> SubSeq(n, 1, p - 1), author |-> SubSeq(n, p + 2, Len(n))]
  ELSE IF OpenBrackets(n) # {}
  THEN LET q == SetMin(OpenBrackets(n))
       IN [pattern |-> "bracket", title |-> SubSeq(n, 1, q - 1),
           author |-> SubSeq(n, q + 1, Len(n) - 1)]
  ELSE LET none == [pattern |-> "fallback", title |-> n, author |-> UnknownAuthor]
       IN IF Separators(n) = {} THEN none
          ELSE LET p == SetMin(Separators(n))
                   before == Strip(SubSeq(n, 1, p - 1))
                   after == Strip(SubSeq(n, RunEnd(n, p, {"-", "ndash", "mdash"}) + 1, Len(n)))
               IN IF Len(before) >= 3 /\ Len(after) >= 3
                  THEN [pattern |-> "dash", title |-> after, author |-> before]
                  ELSE none

C28_SafeName ==
  (call.fn = "make_filesystem_safe" /\ call.done)
    => /\ \A i \in 1..Len(call.ret) : call.ret[i] \notin UnsafeChars
       /\ NoEdgeDotOrSpace(call.ret)
       /\ Len(call.ret) <= NameLimit

\* C29: a tick that resumes with a listing in which it matches a transfer,
\* for a job that is in a non-terminal status: at 99.9 percent or more the job
\* moves to processing and the pipeline is entered, whatever the state of
\* the transfer; below that, an error state moves the job to failed with a
\* message naming the state and ends the monitoring; otherwise the job is
\* downloading and the loop goes on.
C29_TickOutcome ==
  [][\A j \in Ids :
       mon[j].pc = "await_list"
         => \A listed \in Listings :
              LET i == Match(j, mon[j].title, mon[j].loaded.created_at, listed)
              IN (/\ Exists(j)
                  /\ jobs[j].status \in NonTerminalStatuses
                  /\ i # 0
                  /\ TickAfterList(j, TRUE, listed))
                   => IF listed[i].progress * 100 >= CompleteThreshold
                      THEN jobs'[j].status = "processing" /\ mon'[j].pc = "sleep2"
                      ELSE IF listed[i].state \in {"error", "missingFiles", "pausedUP", "unknown"}
                      THEN /\ jobs'[j].status = "failed"
                           /\ jobs'[j].error_message = StateMsg(listed[i].state)
                           /\ mon'[j].pc = "done"
                      ELSE jobs'[j].status = "downloading" /\ mon'[j].pc = "loop"]_vars

\* C30: a tick that begins on a job whose status is cancelled, completed or
\* failed awaits no adapter call and writes nothing to the job; the loop
\* ends and the job id leaves the monitoring registry.
C30_TerminalStopsTick ==
  [][\A j \in Ids :
       (/\ mon[j].pc = "loop"
        /\ Exists(j)
        /\ jobs[j].status \in {"cancelled", "completed", "failed"}
        /\ \E cap \in {MaxTicks, MaxAttempts} : TickTop(j, cap))
         => /\ jobs' = jobs
            /\ mon'[j].pc = "done"
            /\ j \notin monitoring_tasks']_vars

\* C30 witness: a task has ended after a tick although no tick of it ever
\* matched a transfer: the tick found the job cancelled.
C30_Witness ==
  \E j \in Ids :
    /\ mon[j].pc = "done" /\ mon[j].attempts >= 1
    /\ Exists(j) /\ jobs[j].status = "cancelled"
    /\ jobs[j].torrent_hash = NoHash /\ jobs[j].progress = 0
    /\ j \notin monitoring_tasks

\* The step is one in which the tick of job j raises: the commit of the
\* tick's changes finds the row gone, or the pipeline finds no job to work
\* on or cannot commit the status it ends with.
TickRaises(j) ==
  \/ /\ mon[j].pc = "await_list"
     /\ \E listed \in Listings :
          /\ TickOutcome(j, mon[j], listed).commit
          /\ CommitRaises(j, mon[j].loaded, TickOutcome(j, mon[j], listed).obj)
          /\ TickAfterList(j, TRUE, listed)
  \/ /\ mon[j].pc = "sleep2" /\ ~Exists(j)
     /\ ProcessAfterSleep(j, FALSE)
  \/ /\ mon[j].pc = "await_libs" /\ ~Exists(j)
     /\ ProcessAfterLibraries(j, 0)
  \/ /\ mon[j].pc = "await_scan" /\ ~Exists(j) /\ mon[j].scans = 1
     /\ \E ok \in BOOLEAN : ProcessAfterScan(j, ok)

C32_CancelUnboundDirect ==
  [][\A j \in Ids :
       (/\ Exists(j)
        /\ jobs[j].status \in NonTerminalStatuses
        /\ jobs[j].torrent_hash = NoHash
        /\ Cancel(j))
         => /\ jobs'[j].status = "cancelled"
            /\ result' = [op |-> "cancel", job |-> j, val |-> "True"]
            /\ opH'[j].pc = "idle"]_vars

\* C32 witness: cancel has returned True for the only job ever started,
\* which is cancelled with no hash bound although its transfer was
\* submitted and its task runs.
C32_Witness ==
  \E j \in Ids :
    /\ clock = 1
    /\ result = [op |-> "cancel", job |-> j, val |-> "True"]
    /\ Exists(j) /\ jobs[j].torrent_hash = NoHash
    /\ jobs[j].status = "cancelled" /\ jobs[j].error_message = MsgCancelled
    /\ opH[j].pc = "idle"
    /\ live[j] = 1

\* C33: a cancel call that returns True for a job whose transfer start has
\* submitted (the job is downloading or processing) has had the adapter
\* delete that transfer: it returns from the await of delete_torrent, and
\* the daemon was asked to delete the job's transfer.
C33_CancelLeavesNoTransfer ==
  [][\A j \in Ids :
       (/\ Exists(j)
        /\ jobs[j].status \in {"downloading", "processing"}
        /\ result' = [op |-> "cancel", job |-> j, val |-> "True"])
         => /\ opH[j].pc = "cancel_await"
            /\ CancelAfterDelete(j, TRUE)]_vars

\* C34: a tick of a job whose hash is bound, resumed with a listing in
\* which the tag or name match selects a transfer with another hash, takes
\* nothing from that transfer: progress, status and download path of the
\* job stay as they are.
C34_TickFollowsBoundHash ==
  [][\A j \in Ids :
       mon[j].pc = "await_list"
         => \A listed \in Listings :
              LET i == Match(j, mon[j].title, mon[j].loaded.created_at, listed)
              IN (/\ Kept(j)
                  /\ jobs[j].torrent_hash # NoHash
                  /\ mon[j].loaded.torrent_hash = jobs[j].torrent_hash
                  /\ i # 0
                  /\ listed[i].hash # jobs[j].torrent_hash
                  /\ TickAfterList(j, TRUE, listed))
                   => /\ jobs'[j].progress = jobs[j].progress
                      /\ jobs'[j].status = jobs[j].status
                      /\ jobs'[j].download_path = jobs[j].download_path]_vars

\* C35: when the monitoring task of a job id has finished, for whatever
\* reason, and no other task runs for that id, the id is not in the
\* monitoring registry.
C35_FinishedTaskUnregistered ==
  \A j \in Ids :
    (mon[j].pc = "done" /\ live[j] = 0) => j \notin monitoring_tasks

\* The task of job j is suspended on a call to the transfer daemon or to
\* the catalog, or on a sleep.
Suspended(j) ==
  live[j] > 0 /\ mon[j].pc \in {"await_list", "sleep2", "await_libs", "await_scan", "loop"}

\* C36: a monitoring task that is suspended on a network call or on a
\* sleep holds no open store session.
C36_NoSessionAcrossAwait ==
  \A j \in Ids :
    Suspended(j) => ~TickSessionOpen(mon[j]) /\ ~ProcessSessionOpen(mon[j])

\* The operations whose login call is awaiting the answer to its POST.
LoginsInProgress == {r \in DOMAIN reqs : reqs[r].pc \in {"ensure_login", "relogin"}}

\* C37: at most one login call is in progress at any time, and every HTTP
\* request in flight was issued on the session the client still has: no
\* login has closed or replaced it.
C37_LoginsSerialized ==
  /\ Cardinality(LoginsInProgress) <= 1
  /\ \A r \in DOMAIN reqs :
       reqs[r].pc \in {"ensure_login", "await_resp", "relogin", "await_retry"}
         => reqs[r].sess = qb.session

\* C38: one operation makes at most one login call for a 403 and sends its
\* request at most twice; when that login fails or the retried request is
\* not answered with 200, the operation ends in the same step with its
\* failure value; an operation returns a value or its failure value, never
\* an exception.
C38_OneReloginOneRetry ==
  [][\A r \in DOMAIN reqs :
       /\ reqs'[r].relogins <= 1
       /\ reqs'[r].sends <= 2
       /\ reqs'[r].pc = "done" => reqs'[r].ret \in {"value", "False", "[]"}
       /\ \A answer \in Answers :
            /\ (ReloginDone(r, answer) /\ ~(answer = "200" /\ reqs[r].sess = qb.session))
                 => /\ reqs'[r].pc = "done"
                    /\ reqs'[r].ret = (IF reqs[r].op = "get_torrents" THEN "[]" ELSE "False")
                    /\ reqs'[r].sends = reqs[r].sends
            /\ (RetryResponse(r, answer) /\ answer # "200")
                 => /\ reqs'[r].pc = "done"
                    /\ reqs'[r].ret = (IF reqs[r].op = "get_torrents" THEN "[]" ELSE "False")
                    /\ reqs'[r].relogins = reqs[r].relogins]_vars

\* C38 witness: get_torrents has returned the empty list after one login
\* for a 403 and a second send, while another operation awaits its answer.
C38_Witness ==
  \E r \in DOMAIN reqs :
    /\ reqs[r].pc = "done" /\ reqs[r].op = "get_torrents"
    /\ reqs[r].relogins = 1 /\ reqs[r].sends = 2 /\ reqs[r].ret = "[]"
    /\ \E o \in DOMAIN reqs : reqs[o].pc = "await_resp"

\* C39: a tick that matches a transfer at 99.9 percent or more leaves as the
\* job's download path the content path the transfer reports, and the
\* download root joined with the transfer's name when it reports none.
C39_OutputPathPrefersContentPath ==
  [][\A j \in Ids :
       mon[j].pc = "await_list"
         => \A listed \in Listings :
              LET i == Match(j, mon[j].title, mon[j].loaded.created_at, listed)
              IN (/\ Kept(j)
                  /\ jobs[j].status \in NonTerminalStatuses
                  /\ i # 0
                  /\ listed[i].progress * 100 >= CompleteThreshold
                  /\ TickAfterList(j, TRUE, listed))
                   => jobs'[j].download_path =
                        IF listed[i].content_path # <<>>
                        THEN listed[i].content_path
                        ELSE <<DownloadRoot, listed[i].name>>]_vars

\* C40: for a single-file download, organize returns none when the file is
\* not an audio file, and otherwise the author and title the filename
\* heuristic derives from the file's own name, whatever the directory is
\* called and whatever other files it holds.
C40_SingleFileOwnName ==
  (call.fn = "organize_single" /\ call.done)
    => IF IsAudioName(call.file)
       THEN call.ret = [author |-> ExtractMetadata(call.file).author,
                        title |-> ExtractMetadata(call.file).title]
       ELSE call.ret = [none |-> TRUE]

====
